---- MODULE Spec2Model ----
(***************************************************************************)
(* Wheel strategy bot: the webhook order pipeline (main.py), the signal    *)
(* validator and record schema (models.py) and the recommendation loop     *)
(* (wheel_controller.py).                                                  *)
(*                                                                         *)
(* Representation.  An optional value (Python None / SQL NULL / an absent  *)
(* JSON key or file) is a sequence of length 0 or 1.  Money is counted in  *)
(* thousandths (180.0 is 180000).  A date is <<year, month, day>>.  The    *)
(* text of an expiry is a sequence of characters: the digits 0..9 and      *)
(* DASH.                                                                   *)
(***************************************************************************)
EXTENDS Integers, Sequences, FiniteSets, TLC

VARIABLES
    today,          \* the calendar date (datetime.now().date(), date.today())
    alpaca_client,  \* main.py global: TRUE when a brokerage client exists
    table,          \* rows of trading_signals; a row's id is its position
    req,            \* the webhook request being served
    orders,         \* ids of the records place_options_order was invoked for
    file,           \* bot_state.json: <<>> when the file does not exist
    ctl,            \* the runs of wheel_controller.py's main block
    fn              \* the last call of a function applied on its own: its
                    \* name, arguments and result

vars == <<today, alpaca_client, table, req, orders, file, ctl, fn>>

webVars == <<alpaca_client, table, req, orders>>
ctlVars == <<file, ctl>>

\* ---------------------------------------------------------------- bounds
\* Requests are accepted while the table holds fewer than MaxRecords rows;
\* the clock advances at most MaxTicks days.
MaxRecords == 2
MaxTicks == 1

\* ------------------------------------------------------------- calendar
None == <<>>
Some(x) == <<x>>

IsLeap(y) == (y % 4 = 0 /\ y % 100 # 0) \/ y % 400 = 0

DaysInMonth(y, m) ==
    IF m = 2 THEN (IF IsLeap(y) THEN 29 ELSE 28)
    ELSE IF m \in {4, 6, 9, 11} THEN 30 ELSE 31

\* Days since 1970-01-01 of a proleptic Gregorian date.
DaysFromCivil(y, m, d) ==
    LET yy  == IF m <= 2 THEN y - 1 ELSE y
        era == yy \div 400
        yoe == yy - era * 400
        mp  == IF m > 2 THEN m - 3 ELSE m + 9
        doy == (153 * mp + 2) \div 5 + d - 1
        doe == yoe * 365 + yoe \div 4 - yoe \div 100 + doy
    IN  era * 146097 + doe - 719468

\* datetime.date(y, m, d).weekday(): Monday is 0, Friday is 4.
weekday(y, m, d) == (DaysFromCivil(y, m, d) + 3) % 7

DateLE(a, b) == DaysFromCivil(a[1], a[2], a[3]) <= DaysFromCivil(b[1], b[2], b[3])

NextDay(t) ==
    IF t[3] < DaysInMonth(t[1], t[2]) THEN <<t[1], t[2], t[3] + 1>>
    ELSE IF t[2] < 12 THEN <<t[1], t[2] + 1, 1>>
    ELSE <<t[1] + 1, 1, 1>>

\* ----------------------------------------------------------------- text
DASH == 10
Digit == 0..9

\* f"{n:02d}" for 0 <= n <= 99
Pad2(n) == <<n \div 10, n % 10>>

\* f"{year}" for a four-digit year
Str4(y) == <<y \div 1000, (y \div 100) % 10, (y \div 10) % 10, y % 10>>

\* f"{year}-{month:02d}-{third_friday:02d}"
FormatDate(y, m, d) == Str4(y) \o <<DASH>> \o Pad2(m) \o <<DASH>> \o Pad2(d)

AllDigits(s) == \A i \in 1..Len(s) : s[i] \in Digit

RECURSIVE ToInt(_)
ToInt(s) == IF s = <<>> THEN 0 ELSE 10 * ToInt(SubSeq(s, 1, Len(s) - 1)) + s[Len(s)]

\* datetime.strptime(v, '%Y-%m-%d').date(): %Y is four digits, %m is one or
\* two digits in 1..12, %d is one or two digits in 1..31; the day must exist
\* in the month.  The result is <<"ok", date>>, <<"format">> when the text
\* does not match the format, <<"range">> when the day is out of range.
strptime(v) ==
    LET dashes == {i \in 1..Len(v) : v[i] = DASH}
        d1 == 5
        d2 == CHOOSE i \in dashes \cup {0} : i # d1 /\ \A j \in dashes \ {d1} : i >= j
        ys == SubSeq(v, 1, 4)
        ms == SubSeq(v, 6, d2 - 1)
        ds == SubSeq(v, d2 + 1, Len(v))
        shape == /\ Len(v) >= 8
                 /\ Cardinality(dashes) = 2
                 /\ d1 \in dashes
                 /\ Len(ms) \in {1, 2} /\ Len(ds) \in {1, 2}
                 /\ AllDigits(ys) /\ AllDigits(ms) /\ AllDigits(ds)
                 /\ ToInt(ms) \in 1..12 /\ ToInt(ds) \in 1..31
    IN  IF ~shape THEN <<"format">>
        ELSE IF ToInt(ys) < 1 \/ ToInt(ds) > DaysInMonth(ToInt(ys), ToInt(ms))
             THEN <<"range">>
        ELSE <<"ok", <<ToInt(ys), ToInt(ms), ToInt(ds)>>>>

\* ------------------------------------------------- models.py: WebhookSignal
\* str.lower() and str.upper() on the texts the model sends.
lower(s) ==
    CASE s = "SELL_PUT" -> "sell_put"
      [] s = "Sell_Call" -> "sell_call"
      [] s = "BUY_PUT" -> "buy_put"
      [] s = "Y" -> "y"
      [] s = "AAPL" -> "aapl"
      [] OTHER -> s

\* str.strip() on the answers the model types at the prompt.
strip(s) ==
    CASE s = " y " -> "y"
      [] s = "n " -> "n"
      [] OTHER -> s

upper(s) ==
    CASE s = "aapl" -> "AAPL"
      [] s = "Msft" -> "MSFT"
      [] OTHER -> s

\* re.match(r'^[A-Za-z]{1,10}$', v) on the texts the model sends.
IsLetters1to10(s) == s \in {"AAPL", "aapl", "Msft", "MSFT"}

\* Amounts in thousandths that end in 5 and whose float (the binary64
\* nearest to v / 1000) lies above v / 1000: 0.005, 0.025, 999.995, 9999.995.
\* The floats of the other amounts ending in 5 that the model uses (0.015)
\* lie below.
FloatAbove == {5, 25, 999995, 9999995}

\* round(v, 2) of an amount in thousandths: the hundredth nearest to the
\* float.  No float is halfway between two hundredths, so an amount ending
\* in 5 goes the way its float lies.
round2(v) ==
    LET q == v \div 10
        r == v % 10
    IN  IF r < 5 THEN q * 10
        ELSE IF r > 5 THEN (q + 1) * 10
        ELSE IF v \in FloatAbove THEN (q + 1) * 10 ELSE q * 10

StrikeLimit == 10000
PremiumLimit == 1000

allowed_actions == {"sell_put", "sell_call"}

\* Each validator returns <<>> when it raises ValueError and <<value>>, the
\* normalised value, when it accepts.
\* Mutant: the membership test is missing.
validate_action_Unchecked(v) == Some(lower(v))

validate_action(v) ==
    IF lower(v) \notin allowed_actions THEN None ELSE Some(lower(v))

validate_symbol(v) ==
    IF ~IsLetters1to10(v) THEN None ELSE Some(upper(v))

validate_expiry(v, now) ==
    LET p == strptime(v)
    IN  IF p[1] # "ok" THEN None
        ELSE IF DateLE(p[2], now) THEN None
        ELSE Some(v)

\* Mutant: the upper limit is tested on the rounded value.
validate_premium_LimitAfterRounding(v) ==
    IF ~(v > 0) THEN None
    ELSE IF round2(v) > PremiumLimit * 1000 THEN None
    ELSE Some(round2(v))

\* Field(gt=0) runs before the validator.
validate_strike(v) ==
    IF ~(v > 0) THEN None
    ELSE IF v <= 0 THEN None
    ELSE IF v > StrikeLimit * 1000 THEN None
    ELSE Some(round2(v))

validate_premium(v) ==
    IF ~(v > 0) THEN None
    ELSE IF v <= 0 THEN None
    ELSE IF v > PremiumLimit * 1000 THEN None
    ELSE Some(round2(v))

\* quantity: Optional[int] = Field(default=1, gt=0)
validate_quantity(v) ==
    IF v = None THEN Some(1)
    ELSE IF ~(v[1] > 0) THEN None
    ELSE Some(v[1])

\* WebhookSignal(**payload): <<>> when any field is rejected (the request is
\* answered 422 before process_webhook runs), else <<signal>>.
WebhookSignal(raw, now) ==
    LET a == validate_action(raw.action)
        s == validate_symbol(raw.symbol)
        k == validate_strike(raw.strike)
        e == validate_expiry(raw.expiry, now)
        p == validate_premium(raw.premium)
        q == validate_quantity(raw.quantity)
    IN  IF a = None \/ s = None \/ k = None \/ e = None \/ p = None \/ q = None
        THEN None
        ELSE Some([action |-> a[1], symbol |-> s[1], strike |-> k[1],
                   expiry |-> e[1], premium |-> p[1], quantity |-> q[1]])

\* ------------------------------------------- wheel_controller.py helpers
\* Mutant: December is followed by January of the same year.
next_expiry_SameYear(now) ==
    LET year  == now[1]
        month == IF now[2] < 12 THEN now[2] + 1 ELSE 1
        third_friday == CHOOSE d \in 15..21 :
                            /\ weekday(year, month, d) = 4
                            /\ \A e \in 15..(d - 1) : weekday(year, month, e) # 4
    IN  FormatDate(year, month, third_friday)

\* The 3rd Friday of next month.
next_expiry(now) ==
    LET year  == IF now[2] < 12 THEN now[1] ELSE now[1] + 1
        month == IF now[2] < 12 THEN now[2] + 1 ELSE 1
        third_friday == CHOOSE d \in 15..21 :
                            /\ weekday(year, month, d) = 4
                            /\ \A e \in 15..(d - 1) : weekday(year, month, e) # 4
    IN  FormatDate(year, month, third_friday)

States == {"cash", "waiting_assignment", "assigned"}

\* Mutants of build_signal: the two recommendations are exchanged; the
\* final branch recommends a put instead of returning None.
build_signal_Swapped(state, now) ==
    IF state.state = "assigned" THEN
        Some([action |-> "sell_put", symbol |-> "AAPL", strike |-> 180000,
              expiry |-> next_expiry(now), premium |-> 1500, quantity |-> None])
    ELSE IF state.state = "cash" THEN
        Some([action |-> "sell_call", symbol |-> "AAPL", strike |-> 190000,
              expiry |-> next_expiry(now), premium |-> 1750, quantity |-> None])
    ELSE None

build_signal_NeverNone(state, now) ==
    IF state.state = "assigned" THEN
        Some([action |-> "sell_call", symbol |-> "AAPL", strike |-> 190000,
              expiry |-> next_expiry(now), premium |-> 1750, quantity |-> None])
    ELSE
        Some([action |-> "sell_put", symbol |-> "AAPL", strike |-> 180000,
              expiry |-> next_expiry(now), premium |-> 1500, quantity |-> None])

\* build_signal(state): <<>> for None
build_signal(state, now) ==
    IF state.state = "cash" THEN
        Some([action |-> "sell_put", symbol |-> "AAPL", strike |-> 180000,
              expiry |-> next_expiry(now), premium |-> 1500, quantity |-> None])
    ELSE IF state.state = "assigned" THEN
        Some([action |-> "sell_call", symbol |-> "AAPL", strike |-> 190000,
              expiry |-> next_expiry(now), premium |-> 1750, quantity |-> None])
    ELSE None

DefaultState == [state |-> "cash", shares_held |-> 0, last_action |-> None]

\* load_state(): the file's content, or the default when there is no file
load_state(f) == IF f = None THEN DefaultState ELSE f[1]

\* --------------------------------------------------- main.py: the pipeline
\* TradingSignal(action=..., status='pending'): the ORM object before it has
\* an id.
TradingSignal(signal) ==
    [id |-> 0, action |-> signal.action, symbol |-> signal.symbol,
     strike |-> signal.strike, expiry |-> signal.expiry,
     premium |-> signal.premium, quantity |-> signal.quantity,
     status |-> "pending", alpaca_order_id |-> None, processed_at |-> None,
     error_message |-> None]

\* place_options_order(signal, option_type).  raises says whether a statement
\* of its try block raises; the function catches that itself and returns an
\* error result, so the call never raises.  The result is
\* [raised, kind, order_details].
place_options_order(signal, option_type, client, raises) ==
    IF ~client THEN
        [raised |-> FALSE, kind |-> "error", order_details |-> None]
    ELSE IF raises THEN
        [raised |-> FALSE, kind |-> "error", order_details |-> None]
    ELSE
        [raised |-> FALSE, kind |-> "simulated",
         order_details |-> Some([symbol |-> signal.symbol,
                                 option_type |-> option_type,
                                 strike |-> signal.strike,
                                 expiry |-> signal.expiry,
                                 premium |-> signal.premium,
                                 side |-> "sell", order_type |-> "market",
                                 time_in_force |-> "day"])]

\* The body that process_sell_put (option_type "put") and process_sell_call
\* (option_type "call") share, up to (not including) db.commit(): the updated
\* ORM object, whether place_options_order was called, result["alpaca_order"]
\* ("None", "simulated" or "error"), and exc: whether an exception leaves the
\* function (its try block catches every Exception of the order, so none
\* does).
process_sell(option_type, signal, db_signal, client, raises, now) ==
    IF client THEN
        LET r == place_options_order(signal, option_type, client, raises)
        IN  IF r.raised THEN
                [db_signal |-> [db_signal EXCEPT !.status = "error",
                                                 !.error_message = Some("order")],
                 called |-> TRUE, alpaca_order |-> "error", exc |-> FALSE]
            ELSE
                [db_signal |-> [db_signal EXCEPT
                                  !.status = "processed",
                                  !.processed_at = Some(now),
                                  !.alpaca_order_id =
                                      IF r.order_details # None
                                      THEN Some(r.order_details[1].symbol)
                                      ELSE @],
                 called |-> TRUE, alpaca_order |-> r.kind, exc |-> FALSE]
    ELSE
        [db_signal |-> [db_signal EXCEPT !.status = "no_broker",
                                         !.error_message = Some("Alpaca client not available")],
         called |-> FALSE, alpaca_order |-> "None", exc |-> FALSE]

\* Mutants of process_sell_put: the branch without a client sets no status;
\* the branch without a client submits the order all the same; a failure of
\* the order leaves the function as an exception.
process_sell_put_NoStatus(signal, db_signal, client, raises, now) ==
    IF client THEN process_sell("put", signal, db_signal, client, raises, now)
    ELSE [db_signal |-> db_signal, called |-> FALSE, alpaca_order |-> "None",
          exc |-> FALSE]

process_sell_put_Submits(signal, db_signal, client, raises, now) ==
    [process_sell("put", signal, db_signal, client, raises, now)
        EXCEPT !.called = TRUE]

process_sell_put_Reraises(signal, db_signal, client, raises, now) ==
    [process_sell("put", signal, db_signal, client, raises, now)
        EXCEPT !.exc = raises]

process_sell_put(signal, db_signal, client, raises, now) ==
    process_sell("put", signal, db_signal, client, raises, now)

process_sell_call(signal, db_signal, client, raises, now) ==
    process_sell("call", signal, db_signal, client, raises, now)

\* The request slot.  origin is 0 for an external trigger and the run's
\* number for a request sent by the controller.  code is the HTTP status the
\* caller receives (0 while the request is being served).  rowid is the id of
\* the request's row in the table (0 when it has none).  dbfail: a repository
\* operation of this request failed.  raised: place_options_order hit an
\* exception.  writes: committed changes of the row's status.  raw is the
\* body of the request as it was received.
IdleReq ==
    [pc |-> "idle", origin |-> 0, raw |-> None, signal |-> None, db_signal |-> None,
     rowid |-> 0, code |-> 0, alpaca_order |-> "None", called |-> FALSE,
     raised |-> FALSE, dbfail |-> FALSE, writes |-> 0]

\* POST /webhook arrives: FastAPI builds WebhookSignal from the body and
\* answers 422 itself when that fails; otherwise process_webhook starts.
Receive(origin, raw) ==
    /\ req.pc = "idle"
    /\ Len(table) < MaxRecords
    /\ LET signal == WebhookSignal(raw, today)
       IN  req' = IF signal = None
                  THEN [IdleReq EXCEPT !.pc = "done", !.origin = origin,
                                       !.raw = Some(raw), !.code = 422]
                  ELSE [IdleReq EXCEPT !.pc = "persist", !.origin = origin,
                                       !.raw = Some(raw), !.signal = signal]
    /\ UNCHANGED <<today, alpaca_client, table, orders, fn>>

\* process_webhook lines 85-97: build the object, db.add, db.commit,
\* db.refresh.  A failed commit inserts nothing; a failed refresh leaves the
\* inserted row behind.
Persist ==
    /\ req.pc = "persist"
    /\ \E outcome \in {"ok", "commit_fails", "refresh_fails"} :
         LET obj == TradingSignal(req.signal[1])
             row == [obj EXCEPT !.id = Len(table) + 1]
         IN  IF outcome = "commit_fails" THEN
                 /\ table' = table
                 /\ req' = [req EXCEPT !.pc = "handler", !.db_signal = Some(obj),
                                       !.dbfail = TRUE]
             ELSE
                 /\ table' = Append(table, row)
                 /\ req' = [req EXCEPT
                              !.pc = IF outcome = "ok" THEN "process" ELSE "handler",
                              !.db_signal = Some(row), !.rowid = row.id,
                              !.dbfail = (outcome # "ok")]
    /\ UNCHANGED <<today, alpaca_client, orders, ctlVars, fn>>

\* Mutant: the UPDATE has no WHERE clause and rewrites every row.
Commit_AllRows(rows, obj) == [i \in 1..Len(rows) |-> [obj EXCEPT !.id = i]]

\* UPDATE of the request's row by a successful db.commit().
Commit(rows, obj) == [rows EXCEPT ![obj.id] = obj]

\* process_webhook lines 99-110 with the whole of process_sell_put or
\* process_sell_call: the action re-check, the optional order, the status and
\* the db.commit().  A failed commit rolls the session back, which discards
\* the object's unsaved attributes.
Process ==
    /\ req.pc = "process"
    /\ LET signal == req.signal[1]
           obj == req.db_signal[1]
       IN  IF signal.action \notin {"sell_put", "sell_call"} THEN
               \* raise HTTPException(400), passed on by "except HTTPException"
               /\ req' = [req EXCEPT !.pc = "done", !.code = 400]
               /\ UNCHANGED <<table, orders>>
           ELSE
               \E raises \in BOOLEAN, commit_ok \in BOOLEAN :
                 /\ alpaca_client \/ ~raises
                 /\ LET r == IF signal.action = "sell_put"
                             THEN process_sell_put(signal, obj, alpaca_client, raises, today)
                             ELSE process_sell_call(signal, obj, alpaca_client, raises, today)
                    IN  /\ orders' = IF r.called THEN Append(orders, obj.id) ELSE orders
                        /\ IF r.exc THEN
                               \* caught by "except Exception" of process_webhook
                               /\ table' = table
                               /\ req' = [req EXCEPT
                                            !.pc = "handler",
                                            !.db_signal = Some(r.db_signal),
                                            !.alpaca_order = r.alpaca_order,
                                            !.called = r.called,
                                            !.raised = raises]
                           ELSE IF commit_ok THEN
                               /\ table' = Commit(table, r.db_signal)
                               /\ req' = [req EXCEPT
                                            !.pc = "respond",
                                            !.db_signal = Some(r.db_signal),
                                            !.alpaca_order = r.alpaca_order,
                                            !.called = r.called,
                                            !.raised = raises,
                                            !.writes = @ + 1]
                           ELSE
                               /\ table' = table
                               /\ req' = [req EXCEPT
                                            !.pc = "handler",
                                            !.db_signal = Some(table[obj.id]),
                                            !.alpaca_order = r.alpaca_order,
                                            !.called = r.called,
                                            !.raised = raises,
                                            !.dbfail = TRUE]
    /\ UNCHANGED <<today, alpaca_client, ctlVars, fn>>

\* process_webhook lines 112-122: the response is built from db_signal.id,
\* which the session reloads from the database after the commit (sessionmaker
\* keeps expire_on_commit); the reload may fail.
Respond ==
    /\ req.pc = "respond"
    /\ \E load_ok \in BOOLEAN :
         req' = IF load_ok
                THEN [req EXCEPT !.pc = "done", !.code = 200]
                ELSE [req EXCEPT !.pc = "handler", !.dbfail = TRUE]
    /\ UNCHANGED <<today, alpaca_client, table, orders, ctlVars, fn>>

\* process_webhook lines 126-135: mark the object 'error' and commit, then
\* raise HTTPException(500).  When this commit fails too its exception
\* leaves the handler and the server answers 500 itself.  An object whose
\* INSERT was rolled back is no longer in the session: nothing is written.
Handler ==
    /\ req.pc = "handler"
    /\ \E commit_ok \in BOOLEAN :
         LET obj == IF req.db_signal # None
                    THEN Some([req.db_signal[1] EXCEPT
                                 !.status = "error",
                                 !.error_message = Some("exception")])
                    ELSE None
             written == commit_ok /\ obj # None /\ req.rowid # 0
         IN  /\ table' = IF written THEN Commit(table, obj[1]) ELSE table
             /\ req' = [req EXCEPT !.pc = "done", !.code = 500, !.db_signal = obj,
                                   !.writes = IF written THEN @ + 1 ELSE @]
    /\ UNCHANGED <<today, alpaca_client, orders, ctlVars, fn>>

\* ----------------------------------------------------- external triggers
BasePayload ==
    [action |-> "sell_put", symbol |-> "AAPL", strike |-> 180000,
     expiry |-> FormatDate(2025, 6, 20), premium |-> 1500, quantity |-> None]

ActionSamples == {"sell_put", "Sell_Call", "BUY_PUT", ""}
SymbolSamples == {"aapl", "A1"}
StrikeSamples == {0, 10000001}
PremiumSamples == {0, 1000010}
ExpirySamples == {FormatDate(2024, 12, 31), <<2, 0, 2, 5>>}
QuantitySamples == {Some(0), Some(2)}

Payloads ==
    {[BasePayload EXCEPT !.action = a] : a \in ActionSamples}
    \cup {[BasePayload EXCEPT !.symbol = x] : x \in SymbolSamples}
    \cup {[BasePayload EXCEPT !.strike = x] : x \in StrikeSamples}
    \cup {[BasePayload EXCEPT !.premium = x] : x \in PremiumSamples}
    \cup {[BasePayload EXCEPT !.expiry = x] : x \in ExpirySamples}
    \cup {[BasePayload EXCEPT !.quantity = x] : x \in QuantitySamples}

\* An external trigger posts a payload to /webhook.
Webhook ==
    /\ \E raw \in Payloads : Receive(0, raw)
    /\ UNCHANGED ctlVars

\* The external caller has read the response; the server takes the next
\* request.
Close ==
    /\ req.pc = "done"
    /\ req.origin = 0
    /\ req' = IdleReq
    /\ UNCHANGED <<today, alpaca_client, table, orders, ctlVars, fn>>

\* ------------------------------------------------------------ the clock
StartDates == {<<2024, 12, 30>>}

Tick ==
    /\ \E s \in StartDates :
         LET n == DaysFromCivil(today[1], today[2], today[3])
                    - DaysFromCivil(s[1], s[2], s[3])
         IN  n >= 0 /\ n < MaxTicks
    /\ today' = NextDay(today)
    /\ UNCHANGED <<webVars, ctlVars, fn>>

\* ------------------------------------- wheel_controller.py: the main block
Procs == {1, 2}

\* A run of the script.  state is the dict load_state returned, signal the
\* result of build_signal, approve the operator's answer as line 70 stores
\* it, status the first component of send_signal's result (0 before it
\* returns).
IdleRun ==
    [pc |-> "idle", state |-> DefaultState, signal |-> None, approve |-> "",
     status |-> 0]

Ended == {"idle", "exited", "declined", "saved"}

\* Lines 60-68: load the state and build the recommendation; exit(1) when
\* there is none, else print it and prompt.
Propose(p) ==
    /\ ctl[p].pc \in Ended
    /\ LET state == load_state(file)
           signal == build_signal(state, today)
       IN  ctl' = [ctl EXCEPT ![p] =
                     [pc |-> IF signal = None THEN "exited" ELSE "prompt",
                      state |-> state, signal |-> signal, approve |-> "",
                      status |-> 0]]
    /\ UNCHANGED <<today, webVars, file, fn>>

AnswerSamples == {"y", "Y", " y ", "n", "n ", "", "yes"}

\* Mutant: everything but a refusal counts as approval.
approved_NotNo(approve) == approve # "n"

\* Line 71: if approve == 'y'
approved(approve) == approve = "y"

\* Lines 70-71 and 84-85: the operator answers the prompt.
Answer(p) ==
    /\ ctl[p].pc = "prompt"
    /\ \E typed \in AnswerSamples :
         LET approve == lower(strip(typed))
         IN  ctl' = [ctl EXCEPT ![p].approve = approve,
                                ![p].pc = IF approved(approve) THEN "send"
                                          ELSE "declined"]
    /\ UNCHANGED <<today, webVars, file, fn>>

\* send_signal, line 53: requests.post reaches the server, which starts
\* serving the request.
Post(p) ==
    /\ ctl[p].pc = "send"
    /\ Receive(p, ctl[p].signal[1])
    /\ ctl' = [ctl EXCEPT ![p].pc = "wait"]
    /\ UNCHANGED file

\* send_signal, lines 55-56: requests.post raises (no server, no route to
\* it); the result is (500, error).
PostFails(p) ==
    /\ ctl[p].pc = "send"
    /\ ctl' = [ctl EXCEPT ![p].pc = "update", ![p].status = 500]
    /\ UNCHANGED <<today, webVars, file, fn>>

\* send_signal, line 54: the response arrives.  A body that is not JSON
\* makes res.json() raise, which line 56 turns into 500; the server sends
\* such a body only with status 500.
Reply(p) ==
    /\ ctl[p].pc = "wait"
    /\ req.pc = "done"
    /\ req.origin = p
    /\ ctl' = [ctl EXCEPT ![p].pc = "update", ![p].status = req.code]
    /\ req' = IdleReq
    /\ UNCHANGED <<today, alpaca_client, table, orders, file, fn>>

\* Mutants of update_state: the shares are not reset after a call; the
\* state advances only when the webhook answered 200.
update_state_KeepsShares(state, signal, status) ==
    [state EXCEPT !.state = IF signal.action = "sell_put"
                            THEN "waiting_assignment" ELSE "cash",
                  !.last_action = Some(signal)]

update_state_OnSuccess(state, signal, status) ==
    IF status # 200 THEN state
    ELSE [state EXCEPT !.state = IF signal.action = "sell_put"
                                 THEN "waiting_assignment" ELSE "cash",
                       !.shares_held = IF signal.action = "sell_put" THEN @ ELSE 0,
                       !.last_action = Some(signal)]

\* Mutant of update_state: an approved put moves straight to 'assigned'.
update_state_PutAssigns(state, signal, status) ==
    [state EXCEPT !.state = IF signal.action = "sell_put" THEN "assigned" ELSE "cash",
                  !.shares_held = IF signal.action = "sell_put" THEN @ ELSE 0,
                  !.last_action = Some(signal)]

\* Lines 72-82: the new wheel state after an approved signal.  status, the
\* result of send_signal, is printed and not read again.
update_state(state, signal, status) ==
    LET s1 == IF signal.action = "sell_put"
              THEN [state EXCEPT !.state = "waiting_assignment"]
              ELSE IF signal.action = "sell_call"
              THEN [state EXCEPT !.state = "cash", !.shares_held = 0]
              ELSE state
    IN  [s1 EXCEPT !.last_action = Some(signal)]

\* save_state(state)
save_state(state) == Some(state)

\* Lines 73-83: print the result, update the state and save it.
Update(p) ==
    /\ ctl[p].pc = "update"
    /\ LET state == update_state(ctl[p].state, ctl[p].signal[1], ctl[p].status)
       IN  /\ file' = save_state(state)
           /\ ctl' = [ctl EXCEPT ![p].pc = "saved", ![p].state = state]
    /\ UNCHANGED <<today, webVars, fn>>

\* The put was assigned: the operator records it in bot_state.json (the
\* script has no code for this transition).
SharesPerContract == 100

OperatorAssign ==
    /\ file # None
    /\ file[1].state = "waiting_assignment"
    /\ file' = Some([file[1] EXCEPT !.state = "assigned",
                                    !.shares_held = SharesPerContract])
    /\ UNCHANGED <<today, webVars, ctl, fn>>

\* ------------------------------------------------------------ the system
\* No function has been applied on its own.
NoCall == [name |-> "none"]

\* get_alpaca_client() returns a client or None at start-up.
get_alpaca_client(credentials, connects) == credentials /\ connects

Init ==
    /\ today \in StartDates
    /\ \E credentials \in BOOLEAN, connects \in BOOLEAN :
         alpaca_client = get_alpaca_client(credentials, connects)
    /\ table = <<>>
    /\ req = IdleReq
    /\ orders = <<>>
    /\ file = None
    /\ ctl = [p \in Procs |-> IdleRun]
    /\ fn = NoCall

Next ==
    \/ Webhook
    \/ Persist
    \/ Process
    \/ Respond
    \/ Handler
    \/ Close
    \/ Tick
    \/ Propose(1)
    \/ Answer(1)
    \/ Post(1)
    \/ PostFails(1)
    \/ Reply(1)
    \/ Update(1)
    \/ OperatorAssign

Spec == Init /\ [][Next]_vars

\* The server alone, driven by external triggers.
WebNext ==
    \/ Webhook
    \/ Persist
    \/ Process
    \/ Respond
    \/ Handler
    \/ Close
    \/ Tick

WebSpec == Init /\ [][WebNext]_vars

\* The controller script run by one operator against the server, with no
\* other caller of the webhook.
LoopNext ==
    \/ Propose(1)
    \/ Answer(1)
    \/ Post(1)
    \/ PostFails(1)
    \/ Reply(1)
    \/ Update(1)
    \/ OperatorAssign
    \/ Persist
    \/ Process
    \/ Respond
    \/ Handler
    \/ Tick

LoopSpec == Init /\ [][LoopNext]_vars

\* The controller script alone: nobody edits bot_state.json.
NoEditNext ==
    \/ Propose(1)
    \/ Answer(1)
    \/ Post(1)
    \/ PostFails(1)
    \/ Reply(1)
    \/ Update(1)
    \/ Persist
    \/ Process
    \/ Respond
    \/ Handler
    \/ Tick

NoEditSpec == Init /\ [][NoEditNext]_vars

\* Two invocations of the script against one bot_state.json and one server,
\* each started once; nothing in the script orders them.
ConcNext ==
    \/ \E p \in Procs : ctl[p].pc = "idle" /\ Propose(p)
    \/ \E p \in Procs : Answer(p)
    \/ \E p \in Procs : Post(p)
    \/ \E p \in Procs : PostFails(p)
    \/ \E p \in Procs : Reply(p)
    \/ \E p \in Procs : Update(p)
    \/ Persist
    \/ Process
    \/ Respond
    \/ Handler

ConcSpec == Init /\ [][ConcNext]_vars

\* ======================================================== the claims
Terminal == {"processed", "error", "no_broker"}

\* The request has run to its end and its signal passed validation.
Completed == req.pc = "done" /\ req.signal # None

C2_AsClaimed ==
    (Completed /\ alpaca_client /\ req.raised /\ ~req.dbfail) =>
        /\ req.rowid # 0
        /\ table[req.rowid].status = "error"
        /\ table[req.rowid].error_message # None
        /\ req.code = 200

\* ------------------------------------------------------------------ C3
\* C3 as claimed: without a brokerage client every completed request of a
\* validated signal has submitted no order, has its record at 'no_broker'
\* with an error_message, and is answered 200.
C3_AsClaimed ==
    (Completed /\ ~alpaca_client) =>
        /\ ~req.called
        /\ req.rowid # 0
        /\ table[req.rowid].status = "no_broker"
        /\ table[req.rowid].error_message # None
        /\ req.code = 200

\* C3 (amended): without a brokerage client no order submission is ever
\* invoked; and when no repository operation of the request fails, the
\* completed request of a validated signal has its record at 'no_broker'
\* with an error_message and is answered 200.
C3_NoBroker ==
    ~alpaca_client =>
        /\ orders = <<>>
        /\ ~req.called
        /\ (Completed /\ ~req.dbfail) =>
              /\ req.rowid # 0
              /\ table[req.rowid].status = "no_broker"
              /\ table[req.rowid].error_message # None
              /\ req.code = 200

C3_Witness ==
    /\ ~alpaca_client
    /\ Completed /\ ~req.dbfail
    /\ table[req.rowid].status = "no_broker"
    /\ req.code = 200

\* ------------------------------------------------------------------ C4
\* C4: a body whose action is neither sell_put nor sell_call in any case
\* fails validation; a request that fails validation is answered by the
\* rejection with no record created and no order submitted, at the step that
\* receives it; and the re-check of the action inside process_webhook never
\* rejects a request (no request ends with its 400).
C4_RejectedBeforePersistence ==
    /\ []((req.raw # None /\ lower(req.raw[1].action) \notin {"sell_put", "sell_call"})
            => req.signal = None)
    /\ []((req.pc # "idle" /\ req.signal = None) =>
            /\ req.pc = "done" /\ req.code = 422
            /\ req.rowid = 0 /\ req.db_signal = None /\ ~req.called)
    /\ [](req.code # 400)
    /\ [][(req'.pc # "idle" /\ req'.signal = None) =>
            table' = table /\ orders' = orders]_vars

C4_Witness ==
    /\ req.pc = "done"
    /\ req.signal = None
    /\ req.raw[1].action = "BUY_PUT"
    /\ req.code = 422
    /\ Len(table) = 1

\* ------------------------------------------------------------------ C5
\* C5: a completed request is answered 200 exactly when its signal passed
\* validation and no repository operation failed, whatever the broker did;
\* a request of a validated signal in which a repository operation failed is
\* answered 500.
C5_Response ==
    req.pc = "done" =>
        /\ (req.code = 200) <=> (req.signal # None /\ ~req.dbfail)
        /\ (req.signal # None /\ req.dbfail) => req.code = 500
        /\ (req.signal # None /\ ~req.dbfail /\ (req.raised \/ ~alpaca_client))
              => req.code = 200

C5_Witness ==
    /\ req.pc = "done"
    /\ alpaca_client /\ req.raised /\ ~req.dbfail
    /\ req.code = 200

\* ------------------------------------------- the recommendation loop
\* A run of the script starts: it loads the state file and builds its signal.
RunStarts == ctl[1].pc \in Ended /\ ctl'[1] # ctl[1]

\* The run saves the state file.
RunSaves == ctl[1].pc = "update" /\ ctl'[1].pc = "saved"

\* The operator's edit of the state file, outside any run.
OperatorEdits ==
    /\ file # None /\ file' # None
    /\ file[1].state = "waiting_assignment"
    /\ file'[1].state = "assigned"
    /\ ctl' = ctl

\* ------------------------------------------------------------------ C6
\* C6: a run that loads the state 'cash' recommends a sell_put, and when it
\* saves (which it does after the approval) the saved state is
\* 'waiting_assignment' with shares_held as it was loaded and as the file
\* had it.
C6_CashSellsPut ==
    /\ [][(RunStarts /\ load_state(file).state = "cash") =>
            /\ ctl'[1].pc = "prompt"
            /\ ctl'[1].signal # None
            /\ ctl'[1].signal[1].action = "sell_put"]_vars
    /\ [][(RunSaves /\ ctl[1].state.state = "cash") =>
            /\ file' # None
            /\ file'[1].state = "waiting_assignment"
            /\ file'[1].shares_held = ctl[1].state.shares_held
            /\ file'[1].shares_held = load_state(file).shares_held]_vars

C6_Witness ==
    /\ ctl[1].pc = "saved"
    /\ ctl[1].approve = "y"
    /\ ctl[1].signal[1].action = "sell_put"
    /\ file # None
    /\ file[1].state = "waiting_assignment"

\* ------------------------------------------------------------------ C7
\* C7: a run that loads the state 'assigned' recommends a sell_call, and when
\* it saves the saved state is 'cash' with shares_held = 0.
C7_AssignedSellsCall ==
    /\ [][(RunStarts /\ load_state(file).state = "assigned") =>
            /\ ctl'[1].pc = "prompt"
            /\ ctl'[1].signal # None
            /\ ctl'[1].signal[1].action = "sell_call"]_vars
    /\ [][(RunSaves /\ ctl[1].state.state = "assigned") =>
            /\ file' # None
            /\ file'[1].state = "cash"
            /\ file'[1].shares_held = 0]_vars

C7_Witness ==
    /\ ctl[1].pc = "saved"
    /\ ctl[1].approve = "y"
    /\ ctl[1].signal[1].action = "sell_call"
    /\ file # None
    /\ file[1].state = "cash"
    /\ file[1].shares_held = 0

\* ------------------------------------------------------------------ C8
\* C8: a run that loads the state 'waiting_assignment' builds no signal and
\* exits at once: it sends no request, creates no record, submits no order
\* and leaves the state file as it is.
C8_WaitingNoSignal ==
    /\ [][(RunStarts /\ load_state(file).state = "waiting_assignment") =>
            /\ ctl'[1].pc = "exited"
            /\ ctl'[1].signal = None
            /\ file' = file
            /\ req' = req /\ table' = table /\ orders' = orders]_vars
    /\ [][(ctl[1].pc = "exited" /\ ctl'[1].pc = "exited") =>
            (file' = file \/ OperatorEdits)]_vars

C8_Witness ==
    /\ ctl[1].pc = "exited"
    /\ ctl[1].state.state = "waiting_assignment"
    /\ file # None
    /\ file[1] = ctl[1].state

\* ------------------------------------------------------------------ C9
\* C9: the run sends its signal and saves the state file only after the
\* operator answered 'y': a request starts, and the file changes (other than
\* by the operator's own edit), only in a run whose answer is 'y'; a run
\* whose answer is anything else ends with no request sent and the file
\* unchanged.
C9_ApprovalGate ==
    /\ [](ctl[1].pc \in {"send", "wait", "update", "saved"} => ctl[1].approve = "y")
    /\ [](ctl[1].pc = "declined" => ctl[1].approve # "y")
    /\ [][(req.pc = "idle" /\ req'.pc # "idle") =>
            ctl[1].pc = "send" /\ ctl[1].approve = "y"]_vars
    /\ [][(file' # file) =>
            \/ ctl[1].pc = "update" /\ ctl[1].approve = "y"
            \/ OperatorEdits]_vars
    /\ [][(ctl[1].pc = "prompt" /\ ctl'[1].pc = "declined") =>
            file' = file /\ req' = req /\ table' = table /\ orders' = orders]_vars

C9_Witness ==
    /\ ctl[1].pc = "declined"
    /\ ctl[1].approve = "yes"
    /\ file = None
    /\ table = <<>>
    /\ req.pc = "idle"

\* ----------------------------------------------------------------- C10
\* The transition table of the strategy.
TableNext(s) ==
    CASE s = "cash" -> "waiting_assignment"
      [] s = "assigned" -> "cash"
      [] OTHER -> s

\* C10: whatever send_signal returned, the approved run saves the state the
\* table gives for the loaded state, with shares_held reset by a call and
\* kept by a put, and with last_action the proposed signal.
C10_AdvancesWhateverOutcome ==
    [][RunSaves =>
         file' = Some([state |-> TableNext(ctl[1].state.state),
                       shares_held |-> IF ctl[1].state.state = "assigned"
                                       THEN 0 ELSE ctl[1].state.shares_held,
                       last_action |-> ctl[1].signal])]_vars

\* The webhook answered 500 and left the record at 'error'; the wheel state
\* advanced all the same.
C10_Witness ==
    /\ ctl[1].pc = "saved"
    /\ ctl[1].status = 500
    /\ Len(table) = 1
    /\ table[1].status = "error"
    /\ file # None
    /\ file[1].state = "waiting_assignment"
    /\ file[1].last_action = ctl[1].signal

\* ----------------------------------------------------------------- C11
\* The run has sent, or is about to send, an approved sell_put.
SellsPut(p) ==
    /\ ctl[p].pc \in {"send", "wait", "update", "saved"}
    /\ ctl[p].signal # None
    /\ ctl[p].signal[1].action = "sell_put"

\* C11 as claimed: concurrent invocations are serialized, so two runs
\* started from the same 'cash' state never both sell a put: in every
\* serial execution the second run loads 'waiting_assignment' and exits.
C11_AsClaimed == ~(SellsPut(1) /\ SellsPut(2))

\* ----------------------------------------------------------------- C12
\* The fields of a record that come from the submitted signal.
Submitted(row) ==
    <<row.action, row.symbol, row.strike, row.expiry, row.premium, row.quantity>>

\* C12 as claimed: every delivery of a valid signal creates a record of its
\* own.
C12_AsClaimed == Completed => req.rowid # 0

\* C12: a delivery whose INSERT commits appends one record with a fresh id,
\* whether or not a record of the same signal is already stored; ids are
\* distinct; the table never shrinks and a request writes no record but its
\* own.
C12_Independent ==
    [][/\ Len(table') >= Len(table)
       /\ \A i \in 1..Len(table) : i # req.rowid => table'[i] = table[i]
       /\ \A i \in 1..Len(table') : table'[i].id = i
       /\ (req.pc = "persist" /\ req'.rowid # 0) =>
             /\ Len(table') = Len(table) + 1
             /\ req'.rowid = Len(table')
             /\ Submitted(table'[req'.rowid]) =
                  Submitted(TradingSignal(req.signal[1]))
             /\ table'[req'.rowid].status = "pending"]_vars

\* The same signal was delivered twice: two records with different ids, one
\* 'processed' and the other 'error'.
C12_Witness ==
    /\ Len(table) = 2
    /\ Submitted(table[1]) = Submitted(table[2])
    /\ table[1].id # table[2].id
    /\ table[1].status = "processed"
    /\ table[2].status = "error"

\* ----------------------------------------------------------------- C13
\* n written with width decimal digits, zero-padded.
ZeroPad(n, width) ==
    LET RECURSIVE F(_, _)
        F(k, w) == IF w = 0 THEN "" ELSE F(k \div 10, w - 1) \o ToString(k % 10)
    IN  F(n, width)

\* The OCC-style instrument id: symbol, yymmdd of the expiry, P or C, and
\* strike * 1000 (the strike in thousandths) in eight digits.
encode(symbol, expiry, right, strike) ==
    LET d == strptime(expiry)[2]
    IN  symbol \o ZeroPad(d[1] % 100, 2) \o ZeroPad(d[2], 2) \o ZeroPad(d[3], 2)
               \o right \o ZeroPad(strike, 8)

\* C13 as claimed: the order reference recorded for a submitted order is the
\* OCC-style instrument id of the record's symbol, expiry, right and strike.
C13_AsClaimed ==
    \A i \in 1..Len(table) :
        table[i].alpaca_order_id # None =>
            table[i].alpaca_order_id[1] =
                encode(table[i].symbol, table[i].expiry,
                       IF table[i].action = "sell_put" THEN "P" ELSE "C",
                       table[i].strike)

\* ----------------------------------------------------------------- C14
\* Expiry texts offered to the validator: zero-padded dates around the
\* current date and at month ends, dates written without padding, and texts
\* that are no date.
ExpiryTexts ==
    {FormatDate(y, m, d) : y \in {2024, 2025}, m \in {1, 2, 12, 13},
                           d \in {0, 1, 29, 30, 31}}
    \cup {Str4(y) \o <<DASH, m, DASH, d>> : y \in {2024, 2025}, m \in {1, 6},
                                            d \in {1, 5}}
    \cup {Str4(2025) \o <<DASH, 0, 6, DASH, 5>>,
          Str4(2025) \o <<DASH, 6, DASH, 2, 0>>,
          Str4(2025) \o <<0, 6, 2, 0>>,
          <<2, 5>> \o <<DASH, 0, 6, DASH, 2, 0>>,
          Str4(2025) \o <<DASH, 0, 6>>,
          <<>>}

\* WebhookSignal.validate_expiry applied to a text on the current date.
CallValidateExpiry ==
    /\ \E v \in ExpiryTexts :
         fn' = [name |-> "validate_expiry", arg |-> v, now |-> today,
                ret |-> validate_expiry(v, today)]
    /\ UNCHANGED <<today, webVars, ctlVars>>

ExpiryNext ==
    \/ CallValidateExpiry
    \/ Tick

ExpirySpec == Init /\ [][ExpiryNext]_vars

\* The text is YYYY-MM-DD: four digits, a dash, two digits, a dash, two
\* digits.
WellFormed(v) ==
    /\ Len(v) = 10
    /\ v[5] = DASH /\ v[8] = DASH
    /\ \A i \in {1, 2, 3, 4, 6, 7, 9, 10} : v[i] \in Digit

\* C14 as claimed: the validator accepts an expiry only if it is a
\* well-formed YYYY-MM-DD date strictly later than the current date.
C14_AsClaimed ==
    (fn.name = "validate_expiry" /\ fn.ret # None) =>
        /\ WellFormed(fn.arg)
        /\ strptime(fn.arg)[1] = "ok"
        /\ ~DateLE(strptime(fn.arg)[2], fn.now)

\* ----------------------------------------------------------------- C15
\* Amounts in thousandths offered to the validators: around zero and around
\* each upper limit.
Amounts ==
    (-10..30) \cup (999990..1000020) \cup (9999990..10000020)

\* WebhookSignal.validate_premium and validate_strike applied to an amount.
CallValidatePremium ==
    /\ \E v \in Amounts :
         fn' = [name |-> "validate_premium", arg |-> v, ret |-> validate_premium(v)]
    /\ UNCHANGED <<today, webVars, ctlVars>>

CallValidateStrike ==
    /\ \E v \in Amounts :
         fn' = [name |-> "validate_strike", arg |-> v, ret |-> validate_strike(v)]
    /\ UNCHANGED <<today, webVars, ctlVars>>

AmountNext ==
    \/ CallValidatePremium
    \/ CallValidateStrike

AmountSpec == Init /\ [][AmountNext]_vars

\* C15: a premium is accepted exactly when the submitted value is above 0
\* and at most 1000, a strike exactly when it is above 0 and at most 10000;
\* the limits are tested on the value as submitted, before rounding.
C15_Bounds ==
    /\ fn.name = "validate_premium" =>
          (fn.ret # None <=> (fn.arg > 0 /\ fn.arg <= 1000000))
    /\ fn.name = "validate_strike" =>
          (fn.ret # None <=> (fn.arg > 0 /\ fn.arg <= 10000000))

\* A premium of 1000.004, which rounds to 1000.00, was rejected.
C15_Witness ==
    /\ fn.name = "validate_premium"
    /\ fn.arg = 1000004
    /\ fn.ret = None

\* ----------------------------------------------------------------- C16
\* The dates on which the script may run: every day of four years, one of
\* them a leap year.
RunDates ==
    {t \in (2024..2027) \X (1..12) \X (1..31) : t[3] <= DaysInMonth(t[1], t[2])}

\* The script is started on any of these dates.
DateInit ==
    /\ today \in RunDates
    /\ alpaca_client = get_alpaca_client(FALSE, FALSE)
    /\ table = <<>>
    /\ req = IdleReq
    /\ orders = <<>>
    /\ file = None
    /\ ctl = [p \in Procs |-> IdleRun]
    /\ fn = NoCall

\* next_expiry() called on the current date.
CallNextExpiry ==
    /\ fn' = [name |-> "next_expiry", now |-> today, ret |-> next_expiry(today)]
    /\ UNCHANGED <<today, webVars, ctlVars>>

DateNext == CallNextExpiry

DateSpec == DateInit /\ [][DateNext]_vars

\* C16: next_expiry returns, as YYYY-MM-DD, the third Friday of the month
\* after the current one: a Friday with day 15..21 and two Fridays before it
\* in its month; the month is the next one of the same year for January to
\* November and January of the next year for December; the date is strictly
\* after the current date.
C16_ThirdFriday ==
    fn.name = "next_expiry" =>
        LET p == strptime(fn.ret)
            d == p[2]
        IN  /\ WellFormed(fn.ret)
            /\ p[1] = "ok"
            /\ weekday(d[1], d[2], d[3]) = 4
            /\ d[3] \in 15..21
            /\ Cardinality({e \in 1..(d[3] - 1) : weekday(d[1], d[2], e) = 4}) = 2
            /\ fn.now[2] < 12 => (d[1] = fn.now[1] /\ d[2] = fn.now[2] + 1)
            /\ fn.now[2] = 12 => (d[1] = fn.now[1] + 1 /\ d[2] = 1)
            /\ ~DateLE(d, fn.now)

\* Called on 2024-12-30, next_expiry returned 2025-01-17.
C16_Witness ==
    /\ fn.name = "next_expiry"
    /\ fn.now = <<2024, 12, 30>>
    /\ fn.ret = FormatDate(2025, 1, 17)

\* ----------------------------------------------------------------- C17
\* C17 as claimed: the value stored for an accepted premium or strike is
\* above 0 and at most the limit; rounding never turns an accepted value
\* into 0.
C17_AsClaimed ==
    /\ (fn.name = "validate_premium" /\ fn.ret # None) =>
          (fn.ret[1] > 0 /\ fn.ret[1] <= 1000000)
    /\ (fn.name = "validate_strike" /\ fn.ret # None) =>
          (fn.ret[1] > 0 /\ fn.ret[1] <= 10000000)

\* ----------------------------------------------------------------- C18
\* C18 as claimed: every 'processed' record is of an order that was
\* submitted, has processed_at set and an order reference recorded; every
\* 'error' or 'no_broker' record has error_message set.
C18_AsClaimed ==
    \A i \in 1..Len(table) :
        /\ table[i].status = "processed" =>
              /\ \E k \in 1..Len(orders) : orders[k] = i
              /\ table[i].processed_at # None
              /\ table[i].alpaca_order_id # None
        /\ table[i].status \in {"error", "no_broker"} =>
              table[i].error_message # None

\* ----------------------------------------------------------------- C19
\* The contents bot_state.json may have when the script starts: absent, or
\* any state with or without shares.
StateFiles ==
    {None} \cup {Some([state |-> s, shares_held |-> n, last_action |-> None]) :
                    s \in States, n \in {0, SharesPerContract}}

\* The script is started on a state file left by earlier runs or edited by
\* the operator.
FileInit ==
    /\ today \in StartDates
    /\ \E credentials \in BOOLEAN, connects \in BOOLEAN :
         alpaca_client = get_alpaca_client(credentials, connects)
    /\ table = <<>>
    /\ req = IdleReq
    /\ orders = <<>>
    /\ file \in StateFiles
    /\ ctl = [p \in Procs |-> IdleRun]
    /\ fn = NoCall

FileSpec == FileInit /\ [][LoopNext]_vars

\* C19 as claimed: whenever build_signal returns a sell_call, the state it
\* was given is 'assigned' with shares_held above 0.
C19_AsClaimed ==
    (/\ ctl[1].pc = "prompt"
     /\ ctl[1].signal[1].action = "sell_call") =>
        /\ ctl[1].state.state = "assigned"
        /\ ctl[1].state.shares_held > 0

\* ----------------------------------------------------------------- C20
\* C20: started without a state file and with nobody editing it, the runs
\* of the script take no transition but cash -> waiting_assignment: the
\* file, once written, holds 'waiting_assignment' with shares_held 0; no
\* run loads 'assigned' or builds a sell_call; and every run started after
\* the first put was saved builds no signal and exits.
C20_OnlyCashToWaiting ==
    /\ [](file # None =>
            /\ file[1].state = "waiting_assignment"
            /\ file[1].shares_held = 0
            /\ file[1].last_action # None
            /\ file[1].last_action[1].action = "sell_put")
    /\ [](/\ ctl[1].state.state \in {"cash", "waiting_assignment"}
          /\ ctl[1].state.shares_held = 0
          /\ ctl[1].signal # None => ctl[1].signal[1].action = "sell_put")
    /\ [][(RunStarts /\ file # None) =>
            /\ ctl'[1].pc = "exited"
            /\ ctl'[1].signal = None]_vars
    /\ [][file' # file => (file = None /\ ctl[1].approve = "y")]_vars

\* A put was approved and saved, and a later run found nothing to recommend.
C20_Witness ==
    /\ ctl[1].pc = "exited"
    /\ ctl[1].signal = None
    /\ file # None
    /\ file[1].state = "waiting_assignment"
    /\ file[1].shares_held = 0
    /\ file[1].last_action # None
    /\ file[1].last_action[1].action = "sell_put"
    /\ Len(table) >= 1

====
